---- MODULE Spec2Model ----
(***************************************************************************)
(* A model of parse_session_usage() of quota-tracker.py: the scan of the   *)
(* session directory, the per-line fold of usage mappings into five        *)
(* accumulators and the returned result.                                   *)
(*                                                                         *)
(* Units.  cost.total values are counted in 1/32 USD (every such value and *)
(* every sum of them is an exact binary float, so Python's float addition  *)
(* is exact on them); the returned total_cost is counted in 1/10000 USD,   *)
(* the 4 decimal places round() keeps.  Token counts are plain integers.   *)
(* JSON values that are neither absent nor an integer where a number is    *)
(* read (a string, null, a list) are the value "bad": adding one raises    *)
(* TypeError.  JSON floats and booleans in token fields are not modelled.  *)
(***************************************************************************)
EXTENDS Integers, Sequences, FiniteSets, TLC

\* Bounds of the model: files in the directory, lines in the directory.
MaxFiles == 2
MaxLines == 2

(***************************************************************************)
(* JSON values as the code reads them                                      *)
(***************************************************************************)
Absent == [t |-> "absent", v |-> 0]
Bad    == [t |-> "bad", v |-> 0]
Num(n) == [t |-> "num", v |-> n]

\* dict.get(key, 0) on a field: the default 0 when the key is absent
Get(val) == IF val.t = "num" THEN val.v ELSE 0

\* usage["cost"]: absent, not a dict, or a dict with an optional "total"
NoCost       == [shape |-> "absent", total |-> Absent]
CostNonDict  == [shape |-> "nondict", total |-> Absent]
CostDict(tv) == [shape |-> "dict", total |-> tv]

\* a usage value: key absent, not a dict, or a dict of optional sub-fields
NoUsage      == [shape |-> "absent", cost |-> NoCost, input |-> Absent,
                 output |-> Absent, totalTokens |-> Absent]
UsageNonDict == [shape |-> "nondict", cost |-> NoCost, input |-> Absent,
                 output |-> Absent, totalTokens |-> Absent]
UsageDict(c, i, o, t) == [shape |-> "dict", cost |-> c, input |-> i,
                          output |-> o, totalTokens |-> t]
\* the {} that .get("usage", {}) and .get("message", {}) default to
EmptyDict    == UsageDict(NoCost, Absent, Absent, Absent)

\* data["message"]: key absent, not a dict, or a dict with an optional "usage"
NoMessage       == [shape |-> "absent", usage |-> NoUsage]
MessageNonDict  == [shape |-> "nondict", usage |-> NoUsage]
MessageDict(u)  == [shape |-> "dict", usage |-> u]

\* data["timestamp"]: absent, unparseable, or minutes after 2024-01-01T00:00Z
NoTimestamp  == [t |-> "absent", v |-> 0]
BadTimestamp == [t |-> "bad", v |-> 0]
Timestamp(m) == [t |-> "ts", v |-> m]

\* one line of a .jsonl file, by what json.loads makes of it
BadJson     == [kind |-> "badjson", timestamp |-> NoTimestamp,
                usage |-> NoUsage, message |-> NoMessage]
NonDictJson == [kind |-> "nondict", timestamp |-> NoTimestamp,
                usage |-> NoUsage, message |-> NoMessage]
Record(ts, u, m) == [kind |-> "dict", timestamp |-> ts, usage |-> u, message |-> m]
NoLine      == [kind |-> "none", timestamp |-> NoTimestamp,
                usage |-> NoUsage, message |-> NoMessage]

(***************************************************************************)
(* The inputs: lines a session file can hold                               *)
(***************************************************************************)
\* usage mappings: empty, partial, complete, negative, and one mapping that
\* makes each of the four additions of lines 82-85 / 95-98 raise
OnlyInput   == UsageDict(NoCost, Num(2000000), Absent, Absent)
FullUsage   == UsageDict(CostDict(Num(1)), Num(2000000), Num(500000), Num(3))
Negative    == UsageDict(CostDict(Num(-1)), Num(-1), Num(-1), Num(-1))
CostNotDict == UsageDict(CostNonDict, Absent, Num(500000), Absent)
CostNoTotal == UsageDict(CostDict(Absent), Absent, Absent, Num(3))
BadCost     == UsageDict(CostDict(Bad), Num(2000000), Absent, Absent)
BadInput    == UsageDict(CostDict(Num(1)), Bad, Num(500000), Absent)
BadOutput   == UsageDict(NoCost, Num(2000000), Bad, Absent)
BadTotal    == UsageDict(CostDict(Num(1)), Num(2000000), Num(500000), Bad)
UsageMaps   == {EmptyDict, OnlyInput, FullUsage, Negative, CostNotDict,
                CostNoTotal, BadCost, BadInput, BadOutput, BadTotal}

\* the mappings tried under message, where the same body runs (lines 93-99)
NestedMaps  == {EmptyDict, OnlyInput, FullUsage, Negative, BadInput, BadTotal}

\* 2024-01-01T10:00Z, 2024-01-01T23:30Z, 2024-01-02T05:00Z, unparseable
Timestamps == {Timestamp(600), Timestamp(1410), Timestamp(1740), BadTimestamp}

Records ==
    \* usage in neither place
    {Record(NoTimestamp, NoUsage, NoMessage),
     Record(NoTimestamp, UsageNonDict, MessageNonDict),
     Record(NoTimestamp, NoUsage, MessageDict(NoUsage)),
     Record(NoTimestamp, NoUsage, MessageDict(UsageNonDict))}
    \* usage at the top level only
    \cup {Record(NoTimestamp, u, NoMessage) : u \in UsageMaps}
    \cup {Record(NoTimestamp, OnlyInput, MessageNonDict)}
    \* usage under message only
    \cup {Record(NoTimestamp, NoUsage, MessageDict(u)) : u \in NestedMaps}
    \* usage in both places
    \cup {Record(NoTimestamp, FullUsage, MessageDict(OnlyInput)),
          Record(NoTimestamp, OnlyInput, MessageDict(BadInput))}
    \* records that carry a timestamp
    \cup {Record(ts, NoUsage, MessageDict(FullUsage)) : ts \in Timestamps}

Lines == {BadJson, NonDictJson} \cup Records

\* a session file: whether open() succeeds, how many lines it holds, and the
\* index of the first line that is not valid UTF-8 (0: every line decodes)
FileDescs == {[openable |-> FALSE, nlines |-> 0, undecodable |-> 0]}
    \cup {[openable |-> TRUE, nlines |-> n, undecodable |-> u] :
            n \in 0..MaxLines, u \in 0..MaxLines}

RECURSIVE TotalLines(_)
TotalLines(fs) == IF fs = <<>> THEN 0 ELSE Head(fs).nlines + TotalLines(Tail(fs))

\* what glob.glob can return: no file (the directory is missing or empty) up
\* to MaxFiles files holding MaxLines lines between them
Dirs == {fs \in UNION {[1..k -> FileDescs] : k \in 0..MaxFiles} :
            /\ \A i \in DOMAIN fs : fs[i].undecodable <= fs[i].nlines
            /\ TotalLines(fs) <= MaxLines}

(***************************************************************************)
(* The fold of one line, lines 72-101                                      *)
(***************************************************************************)
\* total_x += d.get(key, 0), unless an earlier addition of this line raised;
\* a value that is not a number raises TypeError and leaves total_x as it was
AddField(a, field, val) ==
    IF a.raised THEN a
    ELSE IF val.t = "bad" THEN [a EXCEPT !.raised = TRUE]
    ELSE [a EXCEPT ![field] = @ + Get(val)]

\* a fold that, for a mapping without totalTokens, adds input plus output to
\* total_tokens
AccumulateUsageDerivedTotal(a, usage) ==
    LET a1 == IF usage.cost.shape = "nondict" THEN a
              ELSE AddField(a, "total_cost", usage.cost.total)
        a2 == AddField(a1, "total_input", usage.input)
        a3 == AddField(a2, "total_output", usage.output)
        a4 == IF usage.totalTokens.t = "absent"
              THEN AddField(a3, "total_tokens",
                            Num(Get(usage.input) + Get(usage.output)))
              ELSE AddField(a3, "total_tokens", usage.totalTokens)
    IN  IF a4.raised THEN a4 ELSE [a4 EXCEPT !.session_count = @ + 1]

\* lines 80-86 and 93-99: the body run on a usage dict
AccumulateUsage(a, usage) ==
    LET a1 == IF usage.cost.shape = "nondict" THEN a
              ELSE AddField(a, "total_cost", usage.cost.total)
        a2 == AddField(a1, "total_input", usage.input)
        a3 == AddField(a2, "total_output", usage.output)
        a4 == AddField(a3, "total_tokens", usage.totalTokens)
    IN  IF a4.raised THEN a4 ELSE [a4 EXCEPT !.session_count = @ + 1]

\* lines 77-86: if "usage" in data and it is a dict
TopLevel(a, data) ==
    IF data.usage.shape = "dict" THEN AccumulateUsage(a, data.usage) ELSE a

\* lines 89-99: data.get("message", {}), then content.get("usage", {})
Nested(a, data) ==
    IF a.raised \/ data.message.shape = "nondict" THEN a
    ELSE LET usage == IF data.message.shape = "absent"
                         \/ data.message.usage.shape = "absent"
                      THEN EmptyDict ELSE data.message.usage
         IN  IF usage.shape = "dict" THEN AccumulateUsage(a, usage) ELSE a

\* a loop body that folds only the records of 2024-01-02, in UTC or UTC+8
LoopBodyDateFiltered(a, l) ==
    IF /\ l.kind = "dict"
       /\ l.timestamp.t = "ts"
       /\ \/ l.timestamp.v \div 1440 = 1
          \/ (l.timestamp.v + 480) \div 1440 = 1
    THEN [Nested(TopLevel(a, l), l) EXCEPT !.raised = FALSE]
    ELSE a

\* lines 72-101: json.loads, the isinstance test, both lookups; the bare
\* except keeps whatever was added before the line raised
LoopBody(a, l) ==
    IF l.kind = "dict" THEN [Nested(TopLevel(a, l), l) EXCEPT !.raised = FALSE]
    ELSE a

\* a rounding that takes ties away from zero upwards
Round4HalfUp(n) == (625 * n + 1) \div 2

\* round(total_cost, 4): 1/32 USD in, 1/10000 USD out, ties to even
Round4(n) ==
    LET q == (625 * n) \div 2
    IN  IF (625 * n) % 2 = 0 THEN q ELSE IF q % 2 = 0 THEN q ELSE q + 1

(***************************************************************************)
(* The state                                                               *)
(***************************************************************************)
VARIABLES pc, session_files, fi, pos, line,
          total_cost, total_input, total_output, total_tokens, session_count,
          result

vars == <<pc, session_files, fi, pos, line,
          total_cost, total_input, total_output, total_tokens, session_count,
          result>>

totals == <<total_cost, total_input, total_output, total_tokens, session_count>>

Acc == [total_cost |-> total_cost, total_input |-> total_input,
        total_output |-> total_output, total_tokens |-> total_tokens,
        session_count |-> session_count, raised |-> FALSE]

NoResult == [total_cost |-> 0, total_input |-> 0, total_output |-> 0,
             total_tokens |-> 0, sessions |-> 0]

\* lines 58-62
Init ==
    /\ pc = "glob"
    /\ session_files = <<>>
    /\ fi = 0
    /\ pos = 0
    /\ line = NoLine
    /\ total_cost = 0
    /\ total_input = 0
    /\ total_output = 0
    /\ total_tokens = 0
    /\ session_count = 0
    /\ result = NoResult

\* line 66
Glob ==
    /\ pc = "glob"
    /\ session_files' \in Dirs
    /\ pc' = "for_file"
    /\ UNCHANGED <<fi, pos, line, totals, result>>

\* lines 68-70: the next file opens
OpenFile ==
    /\ pc = "for_file"
    /\ fi < Len(session_files)
    /\ session_files[fi + 1].openable
    /\ fi' = fi + 1
    /\ pos' = 1
    /\ pc' = "for_line"
    /\ UNCHANGED <<session_files, line, totals, result>>

\* an open() whose exception is not caught and ends the function
OpenErrorPropagates ==
    /\ pc = "for_file"
    /\ fi < Len(session_files)
    /\ ~session_files[fi + 1].openable
    /\ pc' = "raised"
    /\ UNCHANGED <<session_files, fi, pos, line, totals, result>>

\* lines 70, 102-103: open() raises, the file is skipped
OpenError ==
    /\ pc = "for_file"
    /\ fi < Len(session_files)
    /\ ~session_files[fi + 1].openable
    /\ fi' = fi + 1
    /\ UNCHANGED <<pc, session_files, pos, line, totals, result>>

\* lines 71-101: the file yields its next line and the loop body runs on it
NextLine ==
    /\ pc = "for_line"
    /\ pos <= session_files[fi].nlines
    /\ session_files[fi].undecodable = 0 \/ pos < session_files[fi].undecodable
    /\ \E l \in Lines :
         LET a == LoopBody(Acc, l)
         IN  /\ line' = l
             /\ total_cost' = a.total_cost
             /\ total_input' = a.total_input
             /\ total_output' = a.total_output
             /\ total_tokens' = a.total_tokens
             /\ session_count' = a.session_count
    /\ pos' = pos + 1
    /\ UNCHANGED <<pc, session_files, fi, result>>

\* lines 71, 102-103: the file iterator decodes a chunk at a time and raises
\* UnicodeDecodeError when the chunk it reads holds the undecodable line, at
\* that line or at a line before it; the rest of the file is skipped
DecodeError ==
    /\ pc = "for_line"
    /\ session_files[fi].undecodable # 0
    /\ pos <= session_files[fi].undecodable
    /\ pc' = "for_file"
    /\ UNCHANGED <<session_files, fi, pos, line, totals, result>>

\* line 71: the file is exhausted
EndOfFile ==
    /\ pc = "for_line"
    /\ session_files[fi].undecodable = 0
    /\ pos > session_files[fi].nlines
    /\ pc' = "for_file"
    /\ UNCHANGED <<session_files, fi, pos, line, totals, result>>

\* lines 107-113
Return ==
    /\ pc = "for_file"
    /\ fi = Len(session_files)
    /\ result' = [total_cost |-> Round4(total_cost), total_input |-> total_input,
                  total_output |-> total_output, total_tokens |-> total_tokens,
                  sessions |-> session_count]
    /\ pc' = "done"
    /\ UNCHANGED <<session_files, fi, pos, line, totals>>

Next ==
    \/ Glob
    \/ OpenFile
    \/ OpenError
    \/ NextLine
    \/ DecodeError
    \/ EndOfFile
    \/ Return

Spec == Init /\ [][Next]_vars

\* the interpreter runs the function to its return
LiveSpec == Spec /\ WF_vars(Next)

(***************************************************************************)
(* Vocabulary of the properties, stated on the line itself and not through *)
(* the operators of the fold                                               *)
(***************************************************************************)
\* the step that reads one line and runs the loop body on it
ReadsLine == pc = "for_line" /\ pc' = "for_line" /\ pos' = pos + 1

\* the number a field stands for, 0 when the key is absent
Value(val) == IF val.t = "num" THEN val.v ELSE 0

\* the usage mapping found at each of the two places, if one is there
Located(u)      == u.shape = "dict"
NestedUsage(l)  == IF l.message.shape = "dict" THEN l.message.usage ELSE NoUsage

\* every number of the mapping that the fold reads is a number
WellFormed(u) ==
    /\ u.cost.shape = "dict" => u.cost.total.t # "bad"
    /\ u.input.t # "bad"
    /\ u.output.t # "bad"
    /\ u.totalTokens.t # "bad"

CostOf(u) == IF Located(u) /\ u.cost.shape = "dict" THEN Value(u.cost.total) ELSE 0

\* the record carries exactly one usage mapping, u, and it is well formed
SoleUsage(l, u) ==
    /\ l.kind = "dict"
    /\ Located(u) /\ WellFormed(u)
    /\ \/ l.usage = u /\ ~Located(NestedUsage(l))
       \/ NestedUsage(l) = u /\ ~Located(l.usage)

\* the three token totals grow by the values of u
AddsTokensOf(u) ==
    /\ total_input' = total_input + Value(u.input)
    /\ total_output' = total_output + Value(u.output)
    /\ total_tokens' = total_tokens + Value(u.totalTokens)

\* n/d rounded to the nearest integer, ties to even (d > 0)
RoundHalfEven(n, d) ==
    LET q == n \div d
        r == n % d
    IN  IF 2 * r < d THEN q
        ELSE IF 2 * r > d THEN q + 1
        ELSE IF q % 2 = 0 THEN q ELSE q + 1

\* days after 2024-01-01 that a caller could ask for: 2024-01-02
TargetDates == {1}

\* the date test of the specification: the UTC date of the instant, or the
\* date of the instant moved 8 hours forward, is the target date
InTargetDate(ts, target) ==
    /\ ts.t = "ts"
    /\ \/ ts.v \div 1440 = target
       \/ (ts.v + 480) \div 1440 = target

(***************************************************************************)
(* C1.  A record with a usage mapping at the top level and another under   *)
(* message adds only the top-level values to the three token totals and    *)
(* adds exactly 1 to the record count.                                     *)
(***************************************************************************)
C1_TopLevelWins ==
    [][(/\ ReadsLine
        /\ line'.kind = "dict"
        /\ Located(line'.usage) /\ WellFormed(line'.usage)
        /\ Located(NestedUsage(line')) /\ WellFormed(NestedUsage(line')))
       => /\ AddsTokensOf(line'.usage)
          /\ session_count' = session_count + 1]_vars

(***************************************************************************)
(* C2.  Each line adds 1 to the record count if it is a record in which a  *)
(* usage mapping is located (top level or under message) and 0 otherwise;  *)
(* a record with usage in neither place changes no total.                  *)
(***************************************************************************)
C2_CountsLocatedRecords ==
    [][ReadsLine =>
         LET located == /\ line'.kind = "dict"
                        /\ Located(line'.usage) \/ Located(NestedUsage(line'))
             wellformed == /\ WellFormed(line'.usage)
                           /\ WellFormed(NestedUsage(line'))
         IN  /\ located /\ wellformed => session_count' = session_count + 1
             /\ ~located => UNCHANGED totals]_vars

IsRounded4(r, n) ==
    /\ 2 * r - 625 * n \in {-1, 0, 1}
    /\ 2 * r # 625 * n => r % 2 = 0

C5_FailingLineNeverAborts ==
    [][/\ (pc = "for_line" /\ pc' = "for_file")
          => pos >= session_files[fi].nlines
       /\ (ReadsLine /\ line'.kind = "badjson") => UNCHANGED totals
       /\ (pc = "for_file" /\ fi < Len(session_files)
             /\ ~session_files[fi + 1].openable)
          => fi' = fi + 1 /\ pc' = "for_file" /\ UNCHANGED totals]_vars

(***************************************************************************)
(* C6.  A record lacking the expected shape (a usage mapping with a value  *)
(* that is not a number where one is read) changes none of the five        *)
(* totals.                                                                 *)
(***************************************************************************)
C6_MalformedRecordContributesNothing ==
    [][(/\ ReadsLine
        /\ line'.kind = "dict"
        /\ ~(WellFormed(line'.usage) /\ WellFormed(NestedUsage(line'))))
       => UNCHANGED totals]_vars

(***************************************************************************)
(* C7.  A record with one usage mapping changes the totals in the same way *)
(* whether the mapping is under message or at the top level: the token     *)
(* totals grow by its values and the record count by exactly 1.            *)
(***************************************************************************)
C7_NestedSameAsTopLevel ==
    [][\A u \in UsageMaps :
         (ReadsLine /\ SoleUsage(line', u))
         => /\ AddsTokensOf(u)
            /\ session_count' = session_count + 1]_vars

(***************************************************************************)
(* C8.  The five totals and the returned cost are never negative.          *)
(***************************************************************************)
C8_NonNegative ==
    /\ total_input >= 0
    /\ total_output >= 0
    /\ total_tokens >= 0
    /\ session_count >= 0
    /\ total_cost >= 0
    /\ result.total_cost >= 0

(***************************************************************************)
(* C9.  A record whose usage mapping has only input grows total_input by   *)
(* that value and leaves total_output and total_tokens alone; and          *)
(* total_tokens grows by the totalTokens values read, never by input plus  *)
(* output.                                                                 *)
(***************************************************************************)
C9_OnlyInput ==
    [][/\ \A u \in UsageMaps :
            (/\ ReadsLine
             /\ SoleUsage(line', u)
             /\ u.cost.shape = "absent"
             /\ u.input.t = "num"
             /\ u.output.t = "absent"
             /\ u.totalTokens.t = "absent")
            => /\ total_input' = total_input + u.input.v
               /\ total_output' = total_output
               /\ total_tokens' = total_tokens
       /\ (/\ ReadsLine
           /\ line'.kind = "dict"
           /\ WellFormed(line'.usage) /\ WellFormed(NestedUsage(line')))
          => total_tokens' = total_tokens + Value(line'.usage.totalTokens)
                                + Value(NestedUsage(line').totalTokens)]_vars

\* a record with only input, at the top level, was folded
C9_Witness ==
    /\ line = Record(NoTimestamp, OnlyInput, NoMessage)
    /\ total_input = 2000000
    /\ total_output = 0
    /\ total_tokens = 0

(***************************************************************************)
(* C10.  The function always returns, and with no session file (the        *)
(* directory is missing or holds no match) every returned field is 0.      *)
(***************************************************************************)
C10_AlwaysReturns ==
    /\ <>(pc = "done")
    /\ [](pc \in {"glob", "for_file", "for_line", "done"})
    /\ []((pc = "done" /\ session_files = <<>>)
          => /\ result.total_cost = 0
             /\ result.total_input = 0
             /\ result.total_output = 0
             /\ result.total_tokens = 0
             /\ result.sessions = 0)

\* the function returned from a directory without session files
C10_Witness == pc = "done" /\ session_files = <<>> /\ fi = 0

====
